---------------------------- MODULE Spec2Model ----------------------------
(***************************************************************************)
(* A model of the notebook src/files-in-repos.py ("Working with files in   *)
(* Databricks Repos").  The notebook is a list of cells run one after the  *)
(* other in one driver process.  A cell is one action: it executes all     *)
(* the statements of the cell, writes what the cell printed to out[c] and  *)
(* how the cell ended to status[c].  A cell that raises halts that cell    *)
(* only (the statements after the raise are skipped); the next cell can    *)
(* still be run, as the notebook itself requires (the cell at line 203     *)
(* always raises).                                                         *)
(*                                                                         *)
(* The files of the repository that the notebook uses but that are not in  *)
(* the notebook (sample.py, utils/sample2.py, lib.py, the data file, the   *)
(* requirements file) are the environment: Init draws them from bounded    *)
(* sets.                                                                   *)
(***************************************************************************)
EXTENDS Integers, Sequences, FiniteSets, TLC

VARIABLES
    pc,           \* index in Cells of the next cell to run
    status,       \* status[c]: "pending", "ok", or the name of the error that halted cell c
    out,          \* out[c]: what cell c logged, a sequence of events (sequences of strings)
    sys_path,     \* Python's sys.path: a sequence of directories
    sys_modules,  \* Python's sys.modules: module name -> [dir, defs]
    names,        \* names bound in the notebook's Python namespace by import statements
    autoreload,   \* whether %autoreload 2 is active
    appended,     \* the directories passed to sys.path.append so far, in call order
    fs,           \* fs[d]: the module files present in directory d
    sample_defs,  \* the functions defined in sample.py of the working directory
    fixture,      \* the table stored in data/winequality-red.csv: [header, rows]
    files,        \* the file stores: key [store, path] -> content
    df,           \* the Python variable df: [lib, columns, dtypes, rows, nparts]
    renv          \* the R session: [vars, funs]

vars == << pc, status, out, sys_path, sys_modules, names, autoreload, appended,
           fs, sample_defs, fixture, files, df, renv >>

pyVars == << sys_path, sys_modules, names, autoreload, appended >>
envVars == << fs, sample_defs, fixture >>

---------------------------------------------------------------------------
(* Bounds of the model. *)

\* how many times the cell at line 47 is run (each run appends one directory)
MaxAppends == 2
\* data rows of the fixture file
MaxRows == 2
\* partitions Spark may give the data frame it reads
MaxPartitions == 2

---------------------------------------------------------------------------
(* The cells, named by the source line of their first statement. *)

Cells == << "c26", "c32", "c37", "c47", "c64", "c74", "c83", "c97", "c109",
            "c117", "c129", "c142", "c163", "c173", "c180", "c188", "c193",
            "c203", "c208", "c221", "c230", "c237", "c246", "c256" >>

CellSet == { Cells[i] : i \in 1..Len(Cells) }

CellIndex(c) == CHOOSE i \in 1..Len(Cells) : Cells[i] = c

Done == Len(Cells) + 1

\* cell c is the next one to run
At(c) == pc = CellIndex(c)

\* cell c has been run
Ran(c) == status[c] # "pending"

\* the cell ends: its status and its log are recorded and the next cell is up
Finish(c, st, log) ==
    /\ status' = [status EXCEPT ![c] = st]
    /\ out' = [out EXCEPT ![c] = log]
    /\ pc' = CellIndex(c) + 1

---------------------------------------------------------------------------
(* Directories and paths: sequences of components, absolute when the first *)
(* component is "/".                                                       *)

\* the working directory /Workspace/Repos/<username>/<repo_name> (line 22)
CWD == << "/", "Workspace", "Repos", "me", "files_in_repos" >>

\* a directory of installed packages on the default path (the path printed at line 28)
SITE == << "/", "databricks", "python", "site-packages" >>

\* the search paths a fresh process starts with: the working directory is
\* on it (line 22)
DefaultPaths == { << CWD, SITE >>, << SITE, CWD >> }

\* the user names that can replace <username> at line 51
Users == { "me", "other" }

\* '/Workspace/Repos/<username>/supplemental_files' (line 51)
SuppDir(u) == << "/", "Workspace", "Repos", u, "supplemental_files" >>

Dirs == { CWD, SITE } \cup { SuppDir(u) : u \in Users }

\* os.getcwd()
getcwd == CWD

\* os.path.abspath: an absolute path is returned as it is, a relative one is
\* joined to the working directory
abspath(p) == IF Len(p) > 0 /\ p[1] = "/" THEN p ELSE getcwd \o p

IsPrefix(s, t) == Len(s) <= Len(t) /\ SubSeq(t, 1, Len(s)) = s

---------------------------------------------------------------------------
(* Python's import system.                                                 *)

Modules == { "sample", "utils", "utils.sample2", "lib" }

NoDir == << >>

\* the packages listed in requirements.txt (line 83)
Requirements == { "requirements-package" }

\* the first directory of path that holds a file of module name, NoDir when
\* there is none: sys.path is searched in order and the first match wins
RECURSIVE Find(_, _)
Find(name, path) ==
    IF path = << >> THEN NoDir
    ELSE IF name \in fs[Head(path)] THEN Head(path)
    ELSE Find(name, Tail(path))

\* what executing the file of module name in directory d defines
Defs(d, name) ==
    IF name = "sample" /\ d = CWD THEN sample_defs
    ELSE IF name = "utils.sample2" THEN { "cube_root" }
    ELSE { }

\* the state an import statement works on
PyState(log) ==
    [ sys_path |-> sys_path, sys_modules |-> sys_modules, names |-> names,
      exc |-> "none", log |-> log ]

\* a faulty import: the error of a failed search is raised as ImportError
ImportModule_Wrapped(name, st) ==
    IF st.exc # "none" THEN st
    ELSE IF name \in DOMAIN st.sys_modules THEN st
    ELSE LET d == Find(name, st.sys_path)
             lg == Append(st.log, << "find", name >>)
         IN IF d = NoDir
            THEN [st EXCEPT !.exc = "ImportError", !.log = lg]
            ELSE [st EXCEPT
                    !.sys_modules = (name :> [dir |-> d, defs |-> Defs(d, name)]) @@ @,
                    !.log = Append(lg, << "load", name >>)]

\* import of a top-level module: a module already in sys.modules is not
\* searched for again; otherwise sys.path is searched once, and a name found
\* nowhere raises ModuleNotFoundError
ImportModule(name, st) ==
    IF st.exc # "none" THEN st
    ELSE IF name \in DOMAIN st.sys_modules THEN st
    ELSE LET d == Find(name, st.sys_path)
             lg == Append(st.log, << "find", name >>)
         IN IF d = NoDir
            THEN [st EXCEPT !.exc = "ModuleNotFoundError", !.log = lg]
            ELSE [st EXCEPT
                    !.sys_modules = (name :> [dir |-> d, defs |-> Defs(d, name)]) @@ @,
                    !.log = Append(lg, << "load", name >>)]

\* import of pkg.sub: the package is imported first, then the submodule is
\* looked for in the directory of the package only
ImportSubmodule(pkg, sub, st) ==
    LET s1 == ImportModule(pkg, st)
        full == IF pkg = "utils" /\ sub = "sample2" THEN "utils.sample2" ELSE sub
    IN IF s1.exc # "none" THEN s1
       ELSE IF full \in DOMAIN s1.sys_modules THEN s1
       ELSE LET d == s1.sys_modules[pkg].dir
                lg == Append(s1.log, << "find", full >>)
            IN IF full \in fs[d]
               THEN [s1 EXCEPT
                       !.sys_modules = (full :> [dir |-> d, defs |-> Defs(d, full)]) @@ @,
                       !.log = Append(lg, << "load", full >>)]
               ELSE [s1 EXCEPT !.exc = "ModuleNotFoundError", !.log = lg]

\* "import name": binds the module to its name
ImportStmt(name, st) ==
    LET s1 == ImportModule(name, st)
    IN IF s1.exc # "none" THEN s1
       ELSE [s1 EXCEPT !.names = @ \cup { name }]

\* "from module import symbol": a symbol the module does not define raises
\* ImportError
FromImport(module, symbol, st) ==
    IF st.exc # "none" THEN st
    ELSE IF symbol \in st.sys_modules[module].defs
         THEN [st EXCEPT !.names = @ \cup { symbol }]
         ELSE [st EXCEPT !.exc = "ImportError"]

\* a call of a function bound by an import
Call(fn, st) ==
    IF st.exc # "none" THEN st
    ELSE IF fn \in st.names
         THEN [st EXCEPT !.log = Append(@, << "call", fn >>)]
         ELSE [st EXCEPT !.exc = "NameError"]

\* a faulty append: the directory is added to a copy of the path
PathAppend_Copy(d, st) ==
    IF st.exc # "none" THEN st
    ELSE [st EXCEPT !.log = Append(@, << "append" >>)]

\* a faulty append: the directory is put in front (sys.path.insert(0, d))
PathAppend_Front(d, st) ==
    IF st.exc # "none" THEN st
    ELSE [st EXCEPT !.sys_path = << d >> \o @,
                    !.log = Append(@, << "append" >>)]

\* sys.path.append(d)
PathAppend(d, st) ==
    IF st.exc # "none" THEN st
    ELSE [st EXCEPT !.sys_path = Append(@, d),
                    !.log = Append(@, << "append" >>)]

\* %autoreload 2: before a cell runs, every loaded module is executed again
\* from its file
Reloaded(mods) ==
    IF autoreload
    THEN [m \in DOMAIN mods |-> [mods[m] EXCEPT !.defs = Defs(mods[m].dir, m)]]
    ELSE mods

PyStatus(st) == IF st.exc = "none" THEN "ok" ELSE st.exc

\* a Python cell ends in import state st
FinishPy(c, st) ==
    /\ Finish(c, PyStatus(st), st.log)
    /\ sys_path' = st.sys_path
    /\ sys_modules' = st.sys_modules
    /\ names' = st.names

---------------------------------------------------------------------------
(* The cells that work with Python modules (lines 26-83).                  *)

\* lines 26-28: print the path
Cell26_PrintPath ==
    /\ At("c26")
    /\ Finish("c26", "ok", << << "print", "sys.path" >> >>)
    /\ UNCHANGED << pyVars, envVars, files, df, renv >>

\* lines 32-33: from sample import n_to_mth; n_to_mth(3, 4)
Cell32_ImportSample ==
    /\ At("c32")
    /\ LET s1 == ImportModule("sample", PyState(<< >>))
           s2 == FromImport("sample", "n_to_mth", s1)
           s3 == Call("n_to_mth", s2)
       IN FinishPy("c32", s3)
    /\ UNCHANGED << autoreload, appended, envVars, files, df, renv >>

\* lines 37-38: from utils.sample2 import cube_root; cube_root(8)
Cell37_ImportSample2 ==
    /\ At("c37")
    /\ LET s1 == ImportSubmodule("utils", "sample2", PyState(<< >>))
           s2 == FromImport("utils.sample2", "cube_root", s1)
           s3 == Call("cube_root", s2)
       IN FinishPy("c37", s3)
    /\ UNCHANGED << autoreload, appended, envVars, files, df, renv >>

\* lines 47-54: sys.path.append(os.path.abspath(...)); import lib, with
\* <username> replaced by u
RunCell47(u) ==
    /\ LET s1 == PathAppend(abspath(SuppDir(u)), PyState(<< >>))
           s2 == ImportStmt("lib", s1)
       IN /\ status' = [status EXCEPT !["c47"] = PyStatus(s2)]
          /\ out' = [out EXCEPT !["c47"] = s2.log]
          /\ sys_path' = s2.sys_path
          /\ sys_modules' = s2.sys_modules
          /\ names' = s2.names
    /\ appended' = Append(appended, abspath(SuppDir(u)))
    /\ pc' = CellIndex("c47") + 1
    /\ UNCHANGED << autoreload, envVars, files, df, renv >>

Cell47_AppendAndImport ==
    /\ At("c47")
    /\ \E u \in Users : RunCell47(u)

\* the cell at line 47 is run again with another user name before the next
\* cell is run (line 50: "replace <username> with your Databricks user name")
Cell47_RunAgain ==
    /\ pc = CellIndex("c47") + 1
    /\ Len(appended) < MaxAppends
    /\ \E u \in Users : RunCell47(u)

\* lines 64-65: %load_ext autoreload; %autoreload 2
Cell64_Autoreload ==
    /\ At("c64")
    /\ autoreload' = TRUE
    /\ Finish("c64", "ok", << >>)
    /\ UNCHANGED << sys_path, sys_modules, names, appended, envVars, files, df, renv >>

\* lines 69-71: the user edits sample.py and adds the function rectangle
EditSample ==
    /\ At("c74")
    /\ "sample" \in fs[CWD]
    /\ "rectangle" \notin sample_defs
    /\ sample_defs' = sample_defs \cup { "rectangle" }
    /\ UNCHANGED << pc, status, out, pyVars, fs, fixture, files, df, renv >>

\* lines 74-75: from sample import rectangle; rectangle(5, 4)
Cell74_ImportRectangle ==
    /\ At("c74")
    /\ LET s0 == [PyState(<< >>) EXCEPT !.sys_modules = Reloaded(sys_modules)]
           s1 == ImportModule("sample", s0)
           s2 == FromImport("sample", "rectangle", s1)
           s3 == Call("rectangle", s2)
       IN FinishPy("c74", s3)
    /\ UNCHANGED << autoreload, appended, envVars, files, df, renv >>

\* line 83: pip install -r requirements.txt
Cell83_PipInstall ==
    /\ At("c83")
    /\ fs' = [fs EXCEPT ![SITE] = @ \cup Requirements]
    /\ Finish("c83", "ok", << << "pip install" >> >>)
    /\ UNCHANGED << pyVars, sample_defs, fixture, files, df, renv >>

---------------------------------------------------------------------------
(* Files.  A file is named by the store it lives in and its absolute path; *)
(* the content of a text file is its sequence of tokens: a field's text,   *)
(* the delimiter "," or the line break "\n".                               *)

\* 'data/winequality-red.csv' (lines 98, 109, 119)
DataPath == << "data", "winequality-red.csv" >>

\* a path given to open(), pandas or the shell: relative to the working directory
LocalKey(p) == [store |-> "local", path |-> abspath(p)]

\* a path given to Spark, Koalas or dbutils: the scheme selects the store,
\* and a path without a scheme is a DBFS path
SparkKey(uri) ==
    IF uri[1] = "file:" THEN [store |-> "local", path |-> Tail(uri)]
    ELSE IF uri[1] = "dbfs:" THEN [store |-> "dbfs", path |-> Tail(uri)]
    ELSE [store |-> "dbfs", path |-> uri]

\* f"file:{os.getcwd()}/data/winequality-red.csv" (lines 132, 144)
DataUri == << "file:" >> \o getcwd \o DataPath

\* the data file of the repository
SourceKey == LocalKey(DataPath)

\* "dbfs:/FileStore/df/Sample.csv" (line 163)
SampleCsvUri == << "dbfs:", "/", "FileStore", "df", "Sample.csv" >>

\* path="/databricks/driver", filename="myplot1.png" (line 183)
DriverDir == << "/", "databricks", "driver" >>
PlotName == "myplot1.png"

\* "file:/databricks/driver/myplot1.png" and
\* "dbfs:/FileStore/tmp/images/myplot1.png" (line 188)
PlotUri == << "file:", "/", "databricks", "driver", "myplot1.png" >>
PlotDbfsUri == << "dbfs:", "/", "FileStore", "tmp", "images", "myplot1.png" >>

Exists(k) == k \in DOMAIN files

\* the files below directory key k
Below(k) ==
    { f \in DOMAIN files : f.store = k.store /\ f.path # k.path /\ IsPrefix(k.path, f.path) }

\* the delimited text of a sequence of lines: the fields of a line joined by
\* ",", every line ended by "\n"
RECURSIVE JoinFields(_)
JoinFields(row) ==
    IF row = << >> THEN << >>
    ELSE IF Len(row) = 1 THEN << row[1] >>
    ELSE << row[1], "," >> \o JoinFields(Tail(row))

RECURSIVE Serialise(_)
Serialise(lines) ==
    IF lines = << >> THEN << >>
    ELSE JoinFields(Head(lines)) \o << "\n" >> \o Serialise(Tail(lines))

\* the lines of a table with its header line first
TableLines(t) == << t.header >> \o t.rows

\* csv.reader: the text is cut into rows at "\n" and each row into fields at
\* ","; every line of the file is a row, the first line included
RECURSIVE ParseCsv(_, _, _, _)
ParseCsv(text, rows, row, field) ==
    IF text = << >>
    THEN IF row = << >> /\ field = "" THEN rows ELSE Append(rows, Append(row, field))
    ELSE LET t == Head(text)
         IN IF t = "\n"
            THEN ParseCsv(Tail(text),
                          Append(rows, IF row = << >> /\ field = "" THEN << >>
                                       ELSE Append(row, field)),
                          << >>, "")
            ELSE IF t = ","
            THEN ParseCsv(Tail(text), rows, Append(row, field), "")
            ELSE ParseCsv(Tail(text), rows, row, t)

\* a faulty reader: the first line is taken for a header and skipped
csv_reader_SkipHeader(text) == Tail(ParseCsv(text, << >>, << >>, ""))

csv_reader(text) == ParseCsv(text, << >>, << >>, "")

\* the for loop of lines 100-101: one print per row the reader yields
RECURSIVE PrintRows(_)
PrintRows(rows) ==
    IF rows = << >> THEN << >>
    ELSE << << "print" >> \o Head(rows) >> \o PrintRows(Tail(rows))

Numeric == { "1", "2", "3", "4" }

\* the type pandas infers for column j of the data rows
InferDtype(rows, j) ==
    IF rows # << >> /\ \A i \in 1..Len(rows) : rows[i][j] \in Numeric
    THEN "int64" ELSE "object"

NoFrame == [lib |-> "none", columns |-> << >>, dtypes |-> << >>, rows |-> << >>,
            nparts |-> 0]

\* pd.read_csv / ks.read_csv with the default header: the first line names
\* the columns, the other lines are the rows, the column types are inferred
read_csv(lib, text) ==
    LET all == csv_reader(text)
        data == Tail(all)
    IN [lib |-> lib, columns |-> Head(all),
        dtypes |-> [j \in 1..Len(Head(all)) |-> InferDtype(data, j)],
        rows |-> data, nparts |-> 0]

\* a faulty load: header=True is left out, the columns get Spark's default
\* names and the header line is a row
spark_read_csv_NoHeader(text, n) ==
    LET all == csv_reader(text)
    IN [lib |-> "spark",
        columns |-> [j \in 1..Len(Head(all)) |-> "_c"],
        dtypes |-> [j \in 1..Len(Head(all)) |-> "string"],
        rows |-> all, nparts |-> n]

\* spark.read.csv(..., header=True) read into n partitions: the first line
\* names the columns and every column is a string column
spark_read_csv(text, n) ==
    LET all == csv_reader(text)
    IN [lib |-> "spark", columns |-> Head(all),
        dtypes |-> [j \in 1..Len(Head(all)) |-> "string"],
        rows |-> Tail(all), nparts |-> n]

Min(a, b) == IF a <= b THEN a ELSE b

\* a faulty coalesce: the frame keeps its partitions
coalesce_Ignored(d, n) == d

\* df.coalesce(n): at most n partitions, never more than the frame has
coalesce(d, n) == [d EXCEPT !.nparts = Min(n, d.nparts)]

PartNames == << "part-00000", "part-00001", "part-00002", "part-00003",
                "part-00004", "part-00005", "part-00006", "part-00007" >>

\* the rows of partition i of n: the rows in file order, cut into n runs
PartRows(rows, i, n) ==
    LET size == (Len(rows) + n - 1) \div n
        from == (i - 1) * size + 1
        to == Min(i * size, Len(rows))
    IN IF from > to THEN << >> ELSE SubSeq(rows, from, to)

\* the files df.write.csv(uri) creates: one part file per partition and the
\* _SUCCESS marker, all below the target path; no header line is written
WrittenFiles(d, uri) ==
    LET k == SparkKey(uri)
        part(i) == [store |-> k.store, path |-> k.path \o << PartNames[i] >>]
        mark == [store |-> k.store, path |-> k.path \o << "_SUCCESS" >>]
    IN [f \in { part(i) : i \in 1..d.nparts } \cup { mark } |->
          IF f = mark THEN << >>
          ELSE LET i == CHOOSE j \in 1..d.nparts : part(j) = f
               IN Serialise(PartRows(d.rows, i, d.nparts))]

\* the part files below a target path
DataArtifacts(uri) ==
    { f \in Below(SparkKey(uri)) : f.path[Len(f.path)] # "_SUCCESS" }

---------------------------------------------------------------------------
(* The cells that work with data files (lines 97-193).                     *)

\* lines 97-101: csv.reader over the opened file, one print per row
Cell97_CsvReader ==
    /\ At("c97")
    /\ IF Exists(LocalKey(DataPath))
       THEN Finish("c97", "ok", PrintRows(csv_reader(files[LocalKey(DataPath)])))
       ELSE Finish("c97", "FileNotFoundError", << >>)
    /\ UNCHANGED << pyVars, envVars, files, df, renv >>

\* line 109: %sh head -10 data/winequality-red.csv
Cell109_Head ==
    /\ At("c109")
    /\ IF Exists(LocalKey(DataPath))
       THEN LET rows == csv_reader(files[LocalKey(DataPath)])
            IN Finish("c109", "ok", PrintRows(SubSeq(rows, 1, Min(10, Len(rows)))))
       ELSE Finish("c109", "No such file or directory", << >>)
    /\ UNCHANGED << pyVars, envVars, files, df, renv >>

\* display(df)
Display(d) == << << "display", d.lib >> \o d.columns >> \o PrintRows(d.rows)

\* lines 117-120: df = pd.read_csv("data/winequality-red.csv"); display(df)
Cell117_Pandas ==
    /\ At("c117")
    /\ IF Exists(LocalKey(DataPath))
       THEN LET d == read_csv("pandas", files[LocalKey(DataPath)])
            IN df' = d /\ Finish("c117", "ok", Display(d))
       ELSE df' = df /\ Finish("c117", "FileNotFoundError", << >>)
    /\ UNCHANGED << pyVars, envVars, files, renv >>

\* lines 129-133: df = ks.read_csv(f"file:{os.getcwd()}/data/..."); display(df)
Cell129_Koalas ==
    /\ At("c129")
    /\ IF Exists(SparkKey(DataUri))
       THEN LET d == read_csv("koalas", files[SparkKey(DataUri)])
            IN df' = d /\ Finish("c129", "ok", Display(d))
       ELSE df' = df /\ Finish("c129", "AnalysisException", << >>)
    /\ UNCHANGED << pyVars, envVars, files, renv >>

\* lines 142-145: df = spark.read.csv(f"file:...", header=True); display(df)
Cell142_Spark ==
    /\ At("c142")
    /\ IF Exists(SparkKey(DataUri))
       THEN \E n \in 1..MaxPartitions :
               LET d == spark_read_csv(files[SparkKey(DataUri)], n)
               IN df' = d /\ Finish("c142", "ok", Display(d))
       ELSE df' = df /\ Finish("c142", "AnalysisException", << >>)
    /\ UNCHANGED << pyVars, envVars, files, renv >>

\* line 163: df.coalesce(1).write.csv("dbfs:/FileStore/df/Sample.csv"); the
\* default save mode raises when the target exists
Cell163_WriteCsv ==
    /\ At("c163")
    /\ IF df.lib # "spark"
       THEN files' = files /\ Finish("c163", "AttributeError", << >>)
       ELSE IF Exists(SparkKey(SampleCsvUri)) \/ Below(SparkKey(SampleCsvUri)) # { }
       THEN files' = files /\ Finish("c163", "AnalysisException", << >>)
       ELSE /\ files' = WrittenFiles(coalesce(df, 1), SampleCsvUri) @@ files
            /\ Finish("c163", "ok", << << "write.csv" >> >>)
    /\ UNCHANGED << pyVars, envVars, df, renv >>

\* lines 173-175: library(SparkR); diamonds_df <- read.df(...)
Cell173_ReadDf ==
    /\ At("c173")
    /\ renv' = [renv EXCEPT !.vars = ("diamonds_df" :> "SparkDataFrame") @@ @]
    /\ Finish("c173", "ok", << >>)
    /\ UNCHANGED << pyVars, envVars, files, df >>

\* a faulty ggsave: path is left out and the plot goes to the working directory
ggsave_NoPath(path, filename) ==
    (LocalKey(<< filename >>) :> << "png" >>) @@ files

\* ggsave(path, filename): the plot is written to path/filename
ggsave(path, filename) ==
    ([store |-> "local", path |-> path \o << filename >>] :> << "png" >>) @@ files

\* lines 180-183: library(ggplot2); myplot1 <- ggplot(...); ggsave(...)
Cell180_SavePlot ==
    /\ At("c180")
    /\ renv' = [renv EXCEPT !.vars = ("myplot1" :> "ggplot") @@ @]
    /\ files' = ggsave(DriverDir, PlotName)
    /\ Finish("c180", "ok", << << "ggsave" >> >>)
    /\ UNCHANGED << pyVars, envVars, df >>

\* dbutils.fs.cp(from, to): the file at to gets the content of the file at from
fs_cp(from, to) == (SparkKey(to) :> files[SparkKey(from)]) @@ files

\* line 188: dbutils.fs.cp("file:/databricks/driver/myplot1.png", "dbfs:/...")
Cell188_CopyPlot ==
    /\ At("c188")
    /\ IF Exists(SparkKey(PlotUri))
       THEN files' = fs_cp(PlotUri, PlotDbfsUri) /\ Finish("c188", "ok", << << "cp" >> >>)
       ELSE files' = files /\ Finish("c188", "FileNotFoundException", << >>)
    /\ UNCHANGED << pyVars, envVars, df, renv >>

\* line 193: displayHTML of the image copied to DBFS
Cell193_DisplayHtml ==
    /\ At("c193")
    /\ Finish("c193", "ok", << << "displayHTML" >> >>)
    /\ UNCHANGED << pyVars, envVars, files, df, renv >>

---------------------------------------------------------------------------
(* R's condition system (lines 203-263).  A cell is a sequence of          *)
(* statements; Exec runs them on a run state                               *)
(*   [out, vars, funs, ctl, target, cond, restart, deferred]               *)
(* where ctl is "run", "halt" (the step is aborted), "unwind" (control is  *)
(* leaving for the tryCatch frame `target`) or "restart" (invokeRestart    *)
(* was called), cond is the condition being handled, and deferred is the   *)
(* list of warnings to print when the step returns to the top level.       *)

Kinds == { "error", "warning", "message" }

Emit(st, ev) == [st EXCEPT !.out = Append(@, ev)]

\* a faulty default: every condition no handler took aborts the step
DefaultAction_AlwaysHalt(c, st) ==
    [Emit(st, << "Error", c.msg >>) EXCEPT !.ctl = "halt"]

\* what R does with a condition no handler took: an error aborts the step,
\* a warning is kept to be printed when the step ends and execution goes on,
\* a message is printed and execution goes on
DefaultAction(c, st) ==
    IF c.kind = "error"
    THEN [Emit(st, << "Error", c.msg >>) EXCEPT !.ctl = "halt"]
    ELSE IF c.kind = "warning"
    THEN [st EXCEPT !.deferred = Append(@, << "Warning message", c.msg >>)]
    ELSE Emit(st, << "message", c.msg >>)

\* the restart a signalling call establishes around its signal
RestartOf(kind) ==
    IF kind = "warning" THEN "muffleWarning"
    ELSE IF kind = "message" THEN "muffleMessage"
    ELSE "none"

RECURSIVE Exec(_, _, _), Step(_, _, _), Signal(_, _, _, _)

\* the statements of a block in order; nothing of the block runs once
\* control has left it
Exec(stmts, hs, st) ==
    IF stmts = << >> \/ st.ctl # "run" THEN st
    ELSE Exec(Tail(stmts), hs, Step(Head(stmts), hs, st))

\* condition c is offered to the handlers hs[i], hs[i-1], ..., hs[1]: an
\* exiting handler (tryCatch) of its kind unwinds to its frame; a calling
\* handler (withCallingHandlers) of its kind runs where the condition was
\* signalled, and when it returns the condition goes on to the handlers
\* below it, unless it invoked the restart of the signal, which ends the
\* signal; with no handler left, the default action is taken
Signal(c, hs, i, st) ==
    IF i = 0 THEN DefaultAction(c, st)
    ELSE IF hs[i].kind # c.kind THEN Signal(c, hs, i - 1, st)
    ELSE IF hs[i].type = "exiting"
    THEN [st EXCEPT !.ctl = "unwind", !.target = hs[i].frame, !.cond = c]
    ELSE LET r == Exec(hs[i].handler, SubSeq(hs, 1, i - 1), [st EXCEPT !.cond = c])
         IN IF r.ctl = "restart"
            THEN IF r.restart = RestartOf(c.kind)
                 THEN [r EXCEPT !.ctl = "run"]
                 ELSE [Emit(r, << "Error", "no restart found" >>) EXCEPT !.ctl = "halt"]
            ELSE IF r.ctl = "run" THEN Signal(c, hs, i - 1, r)
            ELSE r

Step(s, hs, st) ==
    CASE s.op = "print" -> Emit(st, << "print", s.text >>)
      [] s.op = "assign" -> [st EXCEPT !.vars = (s.var :> s.val) @@ @]
      [] s.op = "assign_cond" -> [st EXCEPT !.vars = (s.var :> st.cond.msg) @@ @]
      [] s.op = "print_var" ->
            IF s.var \in DOMAIN st.vars
            THEN Emit(st, << "print", st.vars[s.var] >>)
            ELSE Signal([kind |-> "error", msg |-> "object not found"], hs, Len(hs), st)
      [] s.op = "signal" -> Signal([kind |-> s.kind, msg |-> s.msg], hs, Len(hs), st)
      [] s.op = "function" -> [st EXCEPT !.funs = (s.name :> s.body) @@ @]
      [] s.op = "call" ->
            IF s.name \in DOMAIN st.funs
            THEN Exec(st.funs[s.name], hs, st)
            ELSE Signal([kind |-> "error", msg |-> "could not find function"],
                        hs, Len(hs), st)
      [] s.op = "tryCatch" ->
            LET frame == Len(hs) + 1
                h == [type |-> "exiting", kind |-> s.kind, frame |-> frame,
                      handler |-> s.handler]
                r == Exec(s.body, Append(hs, h), st)
            IN IF r.ctl = "unwind" /\ r.target = frame
               THEN Exec(s.handler, hs, [r EXCEPT !.ctl = "run"])
               ELSE r
      [] s.op = "withCallingHandlers" ->
            LET h == [type |-> "calling", kind |-> s.kind, frame |-> Len(hs) + 1,
                      handler |-> s.handler]
            IN Exec(s.body, Append(hs, h), st)
      [] s.op = "invokeRestart" -> [st EXCEPT !.ctl = "restart", !.restart = s.name]

\* statements
print(text) == [op |-> "print", text |-> text]
Assign(var, val) == [op |-> "assign", var |-> var, val |-> val]
AssignCond(var) == [op |-> "assign_cond", var |-> var]
PrintVar(var) == [op |-> "print_var", var |-> var]
Raise(kind, msg) == [op |-> "signal", kind |-> kind, msg |-> msg]
Function(name, body) == [op |-> "function", name |-> name, body |-> body]
CallR(name) == [op |-> "call", name |-> name]
\* a faulty tryCatch: its handler is a calling handler
tryCatch_Calling(body, kind, handler) ==
    [op |-> "withCallingHandlers", body |-> body, kind |-> kind, handler |-> handler]

tryCatch(body, kind, handler) ==
    [op |-> "tryCatch", body |-> body, kind |-> kind, handler |-> handler]
withCallingHandlers(body, kind, handler) ==
    [op |-> "withCallingHandlers", body |-> body, kind |-> kind, handler |-> handler]
invokeRestart(name) == [op |-> "invokeRestart", name |-> name]

\* line 203: stopifnot(1 == 2)
Prog203 == << Raise("error", "1 == 2 is not TRUE") >>

\* lines 209-216: test <- function() { log("not a number"); print(...) }; test()
Prog208 ==
    << Function("test",
          << Raise("error", "non-numeric argument to mathematical function"),
             print("R does stop due to an error and never executes this line") >>),
       CallR("test") >>

\* lines 222-225
Prog221 ==
    << Assign("an.error.occured", "FALSE"),
       tryCatch(<< Raise("error", "non-numeric argument to mathematical function"),
                   Assign("result", "NaN"),
                   PrintVar("res") >>,
                "error",
                << Assign("an.error.occured", "TRUE") >>),
       PrintVar("an.error.occured") >>

\* lines 231-232
Prog230 ==
    << tryCatch(<< Raise("warning", "NaNs produced"),
                   Assign("result", "NaN"),
                   PrintVar("result") >>,
                "warning",
                << print("Hey, a warning") >>) >>

\* lines 238-241
Prog237 ==
    << Assign("last.message", "NULL"),
       tryCatch(<< Raise("message", "please handle me"),
                   print("Done") >>,
                "message",
                << AssignCond("last.message") >>),
       PrintVar("last.message") >>

\* lines 247-251
Prog246 ==
    << Function("f",
          << Raise("warning", "deprecated function called"),
             print("Hello world") >>),
       withCallingHandlers(<< CallR("f") >>,
                           "warning",
                           << print("Hey, a warning") >>) >>

\* lines 257-263 with the invokeRestart call left out
Prog256_NoRestart ==
    << Function("f",
          << Raise("warning", "deprecated function called"),
             print("Hello old world") >>),
       withCallingHandlers(<< CallR("f") >>,
                           "warning",
                           << print("Hey, a warning") >>),
       print("Done") >>

\* lines 257-263
Prog256 ==
    << Function("f",
          << Raise("warning", "deprecated function called"),
             print("Hello old world") >>),
       withCallingHandlers(<< CallR("f") >>,
                           "warning",
                           << print("Hey, a warning"),
                              invokeRestart("muffleWarning") >>),
       print("Done") >>

NoCond == [kind |-> "none", msg |-> ""]

\* an R cell: its statements run in the R session from the top level, with
\* no handler installed; the deferred warnings are printed when it returns
RunR(prog) ==
    LET st0 == [out |-> << >>, vars |-> renv.vars, funs |-> renv.funs, ctl |-> "run",
                target |-> 0, cond |-> NoCond, restart |-> "none", deferred |-> << >>]
        r == Exec(prog, << >>, st0)
    IN [r EXCEPT !.out = @ \o r.deferred]

RCell(c, prog) ==
    /\ At(c)
    /\ LET r == RunR(prog)
       IN /\ renv' = [vars |-> r.vars, funs |-> r.funs]
          /\ Finish(c, IF r.ctl = "run" THEN "ok" ELSE "error", r.out)
    /\ UNCHANGED << pyVars, envVars, files, df >>

Cell203_Stopifnot == RCell("c203", Prog203)
Cell208_Unhandled == RCell("c208", Prog208)
Cell221_TryCatch == RCell("c221", Prog221)
Cell230_TryCatchWarning == RCell("c230", Prog230)
Cell237_TryCatchParameter == RCell("c237", Prog237)
Cell246_CallingHandlers == RCell("c246", Prog246)
Cell256_Restart == RCell("c256", Prog256)

---------------------------------------------------------------------------
(* The environment and the specification.                                  *)

\* the header lines of the fixtures
Headers == { << "a" >>, << "a", "b" >> }

Values == { "1", "x" }

\* the scenario of the specification: header a,b and the rows 1,2 / 3,4
ExampleFixture ==
    [header |-> << "a", "b" >>, rows |-> << << "1", "2" >>, << "3", "4" >> >>]

\* a fixture: a header of distinct column names and rows of as many fields
Fixtures ==
    { ExampleFixture } \cup
    UNION { { [header |-> h, rows |-> rs] :
                rs \in UNION { [1..r -> [1..Len(h) -> Values]] : r \in 0..MaxRows } } :
            h \in Headers }

\* the layout the notebook describes: sample.py and utils/sample2.py in the
\* working directory, lib.py in the supplemental_files repository of the user
DescribedLayout ==
    [d \in Dirs |->
        IF d = CWD THEN { "sample", "utils", "utils.sample2" }
        ELSE IF d = SuppDir("me") THEN { "lib" }
        ELSE { }]

\* the layouts of the module files: the working directory may hold any of
\* the modules, the other directories may hold a lib.py
Layouts ==
    { l \in [Dirs -> SUBSET Modules] :
        /\ ("utils.sample2" \in l[CWD] => "utils" \in l[CWD])
        /\ \A d \in Dirs \ { CWD } : l[d] \subseteq { "lib" } }

\* a run of the notebook that left its output at the target of line 163
PreviousOutput ==
    WrittenFiles([NoFrame EXCEPT !.nparts = 1], SampleCsvUri)

InitProcess ==
    /\ pc = 1
    /\ status = [c \in CellSet |-> "pending"]
    /\ out = [c \in CellSet |-> << >>]
    /\ sys_path \in DefaultPaths
    /\ sys_modules = << >>
    /\ names = { }
    /\ autoreload = FALSE
    /\ appended = << >>
    /\ sample_defs = { "n_to_mth" }
    /\ df = NoFrame
    /\ renv = [vars |-> << >>, funs |-> << >>]

InitFiles(previous) ==
    files = (SourceKey :> Serialise(TableLines(fixture)))
            @@ (IF previous THEN PreviousOutput ELSE << >>)

\* the module files vary, the data file is the one of the scenario
InitModules ==
    /\ fs \in Layouts
    /\ fixture = ExampleFixture
    /\ InitFiles(FALSE)

\* the data file varies, the module files are where the notebook says
InitData ==
    /\ fs = DescribedLayout
    /\ fixture \in Fixtures
    /\ \E previous \in BOOLEAN : InitFiles(previous)

Init == InitProcess /\ (InitModules \/ InitData)

Next ==
    \/ Cell26_PrintPath
    \/ Cell32_ImportSample
    \/ Cell37_ImportSample2
    \/ Cell47_AppendAndImport
    \/ Cell47_RunAgain
    \/ Cell64_Autoreload
    \/ EditSample
    \/ Cell74_ImportRectangle
    \/ Cell83_PipInstall
    \/ Cell97_CsvReader
    \/ Cell109_Head
    \/ Cell117_Pandas
    \/ Cell129_Koalas
    \/ Cell142_Spark
    \/ Cell163_WriteCsv
    \/ Cell173_ReadDf
    \/ Cell180_SavePlot
    \/ Cell188_CopyPlot
    \/ Cell193_DisplayHtml
    \/ Cell203_Stopifnot
    \/ Cell208_Unhandled
    \/ Cell221_TryCatch
    \/ Cell230_TryCatchWarning
    \/ Cell237_TryCatchParameter
    \/ Cell246_CallingHandlers
    \/ Cell256_Restart

Spec == Init /\ [][Next]_vars

---------------------------------------------------------------------------
(* Properties of the module search path (lines 26-75).                     *)

\* module m is found in no directory of path
Missing(m, path) == \A i \in 1..Len(path) : m \notin fs[path[i]]

\* directory d is the first directory of path that holds module m
FirstMatch(m, d, path) ==
    \E i \in 1..Len(path) :
        /\ path[i] = d
        /\ m \in fs[d]
        /\ \A j \in 1..(i - 1) : m \notin fs[path[j]]

TopLevel == { "sample", "utils", "lib" }

\* the step just taken ran the cell at line 47
RanCell47 == Len(appended') = Len(appended) + 1

\* C1: for every directory D appended by the cell at line 47 and every module
\* M whose file is in D and in no directory already on sys.path, importing M
\* fails before the append and succeeds right after it, in the same process:
\* the import of the cell itself succeeds and loads lib from D.
C1_ImportableAfterAppend ==
    [][ RanCell47 =>
          LET D == appended'[Len(appended')]
          IN \A M \in TopLevel :
                (M \in fs[D] /\ Missing(M, sys_path)) =>
                    /\ ImportStmt(M, PyState(<< >>)).exc = "ModuleNotFoundError"
                    /\ M \notin DOMAIN sys_modules
                    /\ LET after == ImportStmt(M, [PyState(<< >>) EXCEPT
                                                     !.sys_path = sys_path',
                                                     !.sys_modules = sys_modules',
                                                     !.names = names'])
                       IN after.exc = "none" /\ after.sys_modules[M].dir = D
                    /\ (M = "lib" =>
                          /\ status'["c47"] = "ok"
                          /\ sys_modules'["lib"].dir = D
                          /\ "lib" \in names')
      ]_vars

\* a run of the cell at line 47 made lib importable: lib.py is in the
\* directory appended last and in no directory that was on the path before
C1_Witness ==
    /\ Len(appended) = 2
    /\ appended[1] # appended[2]
    /\ "lib" \in fs[appended[2]]
    /\ "lib" \notin fs[appended[1]] \cup fs[CWD] \cup fs[SITE]
    /\ out["c47"] = << << "append" >>, << "find", "lib" >>, << "load", "lib" >> >>
    /\ sys_modules["lib"].dir = appended[2]

\* C4: sys.path is the default path, which holds the working directory,
\* followed by the appended directories in append order; every loaded
\* top-level module, and every module a search would find, comes from the
\* first directory of sys.path that holds it, so a module of the working
\* directory shadows a module of the same name in an appended directory.
C4_ResolutionOrder ==
    /\ \E i \in 1..(Len(sys_path) - Len(appended)) : sys_path[i] = CWD
    /\ SubSeq(sys_path, Len(sys_path) - Len(appended) + 1, Len(sys_path)) = appended
    /\ \A m \in TopLevel :
          /\ m \in DOMAIN sys_modules => FirstMatch(m, sys_modules[m].dir, sys_path)
          /\ Find(m, sys_path) # NoDir => FirstMatch(m, Find(m, sys_path), sys_path)
          /\ Find(m, sys_path) = NoDir => Missing(m, sys_path)
          /\ (m \in DOMAIN sys_modules /\ m \in fs[CWD])
               => sys_modules[m].dir \notin { appended[k] : k \in 1..Len(appended) }

\* lib.py is in the working directory and in an appended directory, two
\* different directories were appended, and lib was loaded from the working
\* directory
C4_Witness ==
    /\ Len(appended) = 2
    /\ appended[1] # appended[2]
    /\ "lib" \in fs[CWD] \cap fs[appended[1]] \cap fs[appended[2]]
    /\ "lib" \notin fs[SITE]
    /\ "lib" \in DOMAIN sys_modules
    /\ sys_modules["lib"].dir = CWD

\* the cells that import a module, with the module they search for first
ImportCells == { "c32", "c37", "c47", "c74" }
FirstImport(c) == IF c = "c47" THEN "lib" ELSE IF c = "c37" THEN "utils" ELSE "sample"

\* the step just taken ran import cell c
RanImportCell(c) ==
    IF c = "c47" THEN RanCell47 ELSE pc = CellIndex(c) /\ pc' = pc + 1

\* the events of log that are ev
Count(log, ev) == Cardinality({ i \in 1..Len(log) : log[i] = ev })

\* C5: an import of a module that is found in no directory of sys.path (and
\* is not loaded yet) ends the cell with ModuleNotFoundError and nothing
\* else: the path was searched once for it, no module was loaded and no name
\* bound, no later statement of the cell ran, and sys.path is what it was
\* (with the directory the cell itself appended before the import).
C5_ModuleNotFound ==
    [][ \A c \in ImportCells :
          (RanImportCell(c)
             /\ FirstImport(c) \notin DOMAIN sys_modules
             /\ Missing(FirstImport(c), sys_path'))
          => /\ status'[c] = "ModuleNotFoundError"
             /\ Count(out'[c], << "find", FirstImport(c) >>) = 1
             /\ out'[c][Len(out'[c])] = << "find", FirstImport(c) >>
             /\ \A i \in 1..Len(out'[c]) : out'[c][i][1] \notin { "load", "call" }
             /\ sys_modules' = sys_modules
             /\ names' = names
             /\ sys_path' = IF c = "c47"
                            THEN Append(sys_path, appended'[Len(appended')])
                            ELSE sys_path
      ]_vars

\* lib.py is nowhere on the path after the append and the cell at line 47
\* ended with ModuleNotFoundError; so did the import of sample at line 32
C5_Witness ==
    /\ status["c47"] = "ModuleNotFoundError"
    /\ status["c32"] = "ModuleNotFoundError"
    /\ Missing("lib", sys_path)
    /\ "lib" \notin names
    /\ Len(sys_path) = Len(appended) + 2

---------------------------------------------------------------------------
(* Properties of the data file cells (lines 97-188).                       *)

\* C2 as stated: the row iterator of lines 97-101 yields exactly the R data
\* rows of the fixture, the header line left out.
C2_AsStated ==
    Ran("c97") => out["c97"] = PrintRows(fixture.rows)

\* C2: the row iterator of lines 97-101 yields every line of the file in file
\* order, the header line first: R + 1 sequences of length C for a fixture of
\* a header and R data rows of C columns.
C2_RowIterator ==
    Ran("c97") =>
        /\ status["c97"] = "ok"
        /\ Len(out["c97"]) = Len(fixture.rows) + 1
        /\ out["c97"][1] = << "print" >> \o fixture.header
        /\ \A i \in 1..Len(fixture.rows) :
              out["c97"][i + 1] = << "print" >> \o fixture.rows[i]
        /\ \A i \in 1..Len(out["c97"]) :
              Len(out["c97"][i]) = Len(fixture.header) + 1

\* the scenario: header a,b and rows 1,2 / 3,4 were printed as three rows
C2_Witness ==
    /\ fixture = ExampleFixture
    /\ out["c97"] = << << "print", "a", "b" >>, << "print", "1", "2" >>,
                       << "print", "3", "4" >> >>

\* the cells that bulk-load the file, with the library they use
LoadCells == { "c117", "c129", "c142" }
LoaderOf(c) == IF c = "c117" THEN "pandas" ELSE IF c = "c129" THEN "koalas" ELSE "spark"

UncoalescedArtifacts ==
    { f \in DOMAIN WrittenFiles(df, SampleCsvUri) : f.path[Len(f.path)] # "_SUCCESS" }

\* C7: when the write of line 163 is done, there is exactly one data file at
\* the target, however many partitions the frame has; written without
\* coalesce(1) the frame would give one data file per partition.
C7_SingleFile ==
    status["c163"] = "ok" =>
        /\ Cardinality(DataArtifacts(SampleCsvUri)) = 1
        /\ \A f \in DataArtifacts(SampleCsvUri) : files[f] = Serialise(df.rows)
        /\ Cardinality(UncoalescedArtifacts) = df.nparts

\* a frame of more than one partition was written to one data file
C7_Witness ==
    /\ status["c163"] = "ok"
    /\ df.nparts > 1
    /\ Len(df.rows) > 1
    /\ Cardinality(DataArtifacts(SampleCsvUri)) = 1
    /\ Cardinality(UncoalescedArtifacts) > 1

\* key k is outside the working directory of the repository
OutsideSource(k) == ~(k.store = "local" /\ IsPrefix(CWD, k.path))

\* C8: after any number of cells the data file holds what it held at the
\* start, and every other file, as every target of a write or a copy, is
\* outside the working directory the data file is read from.
C8_SourceUnchanged ==
    /\ SourceKey \in DOMAIN files
    /\ files[SourceKey] = Serialise(TableLines(fixture))
    /\ \A k \in DOMAIN files \ { SourceKey } : OutsideSource(k)
    /\ OutsideSource(SparkKey(SampleCsvUri))
    /\ OutsideSource(SparkKey(PlotUri))
    /\ OutsideSource(SparkKey(PlotDbfsUri))

\* the write and the copy were done and the data file is as it was
C8_Witness ==
    /\ status["c163"] = "ok"
    /\ status["c180"] = "ok"
    /\ status["c188"] = "ok"
    /\ Cardinality(DOMAIN files) = 5
    /\ files[SourceKey] = Serialise(TableLines(fixture))

---------------------------------------------------------------------------
(* Properties of the R condition cells (lines 203-263).                    *)

Events(log) == { log[i] : i \in 1..Len(log) }

\* a step that signals a condition of kind k inside a construct ("tryCatch"
\* or "withCallingHandlers") that installs a handler for kind hk
HandledStep(construct, hk, k) ==
    << [op |-> construct,
        body |-> << Raise(k, "condition"), print("rest of the block") >>,
        kind |-> hk,
        handler |-> << print("handler") >>],
       print("after the construct") >>

\* a step that signals a condition of kind k with no handler installed
UnhandledStep(k) == << Raise(k, "condition"), print("after the signal") >>

Constructs == { "tryCatch", "withCallingHandlers" }

\* the notebook's cells that signal a condition with no handler installed
\* (stopifnot at line 203, test() at line 216) and those that signal it
\* inside a construct that handles its kind
UnhandledCells == { "c203", "c208" }
HandledCells == { "c221", "c230", "c237", "c246", "c256" }

\* the statements that follow the handler construct in a handled cell
AfterConstruct(c) ==
    IF c = "c221" THEN { << "print", "TRUE" >> }
    ELSE IF c = "c237" THEN { << "print", "please handle me" >> }
    ELSE IF c = "c256" THEN { << "print", "Done" >> }
    ELSE { }

CellsAsClaimed ==
    /\ \A c \in HandledCells :
          Ran(c) => status[c] = "ok" /\ AfterConstruct(c) \subseteq Events(out[c])
    /\ \A c \in UnhandledCells :
          Ran(c) => /\ status[c] = "error"
                    /\ \A e \in Events(out[c]) : e[1] = "Error"

\* C3 as stated: with a handler for its kind installed by either construct a
\* condition of any kind does not halt the step and the statements after the
\* construct run; with no handler a condition of any kind halts the step.
C3_AsStated ==
    /\ CellsAsClaimed
    /\ \A k \in Kinds : \A con \in Constructs :
          LET r == RunR(HandledStep(con, k, k))
          IN r.ctl = "run" /\ << "print", "after the construct" >> \in Events(r.out)
    /\ \A k \in Kinds :
          LET r == RunR(UnhandledStep(k))
          IN r.ctl = "halt" /\ << "print", "after the signal" >> \notin Events(r.out)

\* C3: a condition of any kind signalled under a tryCatch handler of its
\* kind, and a warning or a message signalled under a withCallingHandlers
\* handler of its kind, does not halt the step, and the statements after the
\* construct run; an error with no tryCatch handler for it halts the step and
\* no later statement of the step runs, also under a calling handler that
\* returns; a warning or a message with no handler does not halt the step.
C3_Interception ==
    /\ CellsAsClaimed
    /\ \A k \in Kinds :
          LET r == RunR(HandledStep("tryCatch", k, k))
          IN /\ r.ctl = "run"
             /\ r.out = << << "print", "handler" >>, << "print", "after the construct" >> >>
    /\ \A k \in Kinds \ { "error" } :
          LET r == RunR(HandledStep("withCallingHandlers", k, k))
          IN /\ r.ctl = "run"
             /\ << "print", "after the construct" >> \in Events(r.out)
    /\ \A hk \in Kinds : \A con \in Constructs :
          (con = "withCallingHandlers" \/ hk # "error") =>
             LET r == RunR(HandledStep(con, hk, "error"))
             IN /\ r.ctl = "halt"
                /\ << "print", "rest of the block" >> \notin Events(r.out)
                /\ << "print", "after the construct" >> \notin Events(r.out)
    /\ LET r == RunR(UnhandledStep("error"))
       IN r.ctl = "halt" /\ r.out = << << "Error", "condition" >> >>
    /\ \A k \in Kinds \ { "error" } :
          LET r == RunR(UnhandledStep(k))
          IN r.ctl = "run" /\ << "print", "after the signal" >> \in Events(r.out)

\* the unhandled error of line 216 halted its cell before the print, and the
\* warning of line 248, which its calling handler let pass, did not halt its
\* cell
C3_Witness ==
    /\ status["c208"] = "error"
    /\ out["c208"] = << << "Error", "non-numeric argument to mathematical function" >> >>
    /\ status["c221"] = "ok"
    /\ status["c246"] = "ok"
    /\ << "Warning message", "deprecated function called" >> \in Events(out["c246"])
    /\ << "print", "Hello world" >> \in Events(out["c246"])

\* C9: in the cell of lines 257-263 the handler prints, then f goes on after
\* its warning() and prints "Hello old world", then "Done" is printed; the
\* warning goes no further (no warning message is printed) and the cell ends
\* normally.
C9_ResumeAfterRestart ==
    Ran("c256") =>
        /\ status["c256"] = "ok"
        /\ out["c256"] = << << "print", "Hey, a warning" >>,
                            << "print", "Hello old world" >>,
                            << "print", "Done" >> >>

\* the cell with the restart was run and printed its three lines
C9_Witness ==
    /\ pc = Done
    /\ Len(out["c256"]) = 3
    /\ out["c256"][2] = << "print", "Hello old world" >>

\* C10: in the tryCatch cells (lines 222-225, 231-232, 238-241) nothing of
\* the block runs after the signalling call (result is never assigned,
\* print(res), print(result) and print("Done") never run), the handler's
\* assignment is visible afterwards, and the statement after the tryCatch
\* runs.
C10_TryCatchUnwinds ==
    /\ "result" \notin DOMAIN renv.vars
    /\ Ran("c221") =>
          /\ status["c221"] = "ok"
          /\ out["c221"] = << << "print", "TRUE" >> >>
          /\ renv.vars["an.error.occured"] = "TRUE"
    /\ Ran("c230") =>
          /\ status["c230"] = "ok"
          /\ out["c230"] = << << "print", "Hey, a warning" >> >>
    /\ Ran("c237") =>
          /\ status["c237"] = "ok"
          /\ out["c237"] = << << "print", "please handle me" >> >>
          /\ renv.vars["last.message"] = "please handle me"

\* the three tryCatch cells were run and their handlers left their marks
C10_Witness ==
    /\ Ran("c221") /\ Ran("c230") /\ Ran("c237")
    /\ renv.vars["an.error.occured"] = "TRUE"
    /\ renv.vars["last.message"] = "please handle me"
    /\ out["c230"] = << << "print", "Hey, a warning" >> >>

=============================================================================
